---- MODULE Spec2Model ----
(***************************************************************************)
(* Verification model of typster's native layer (typster_nif):             *)
(*   - package path resolution and the package cache fill                  *)
(*     (world.rs resolve_path, packages.rs download_package),              *)
(*   - assembly of the main source (lib.rs, world.rs TypstWorld::new),     *)
(*   - conversion of host terms to Typst values (convert.rs).              *)
(* Text is modelled as a sequence of one-character strings.                *)
(***************************************************************************)
EXTENDS Integers, Sequences, FiniteSets, TLC

(***************************************************************************)
(* Text: sequences of one-character strings                                *)
(***************************************************************************)
RECURSIVE Join(_, _)
\* Vec<String>::join(sep)
Join(ss, sep) ==
    IF ss = <<>> THEN <<>>
    ELSE IF Len(ss) = 1 THEN ss[1]
    ELSE ss[1] \o sep \o Join(Tail(ss), sep)

RECURSIVE ReplaceChar(_, _, _)
\* str::replace(c, r) for a one-character pattern c
ReplaceChar(s, c, r) ==
    IF s = <<>> THEN <<>>
    ELSE (IF Head(s) = c THEN r ELSE <<Head(s)>>) \o ReplaceChar(Tail(s), c, r)

Digits == <<"0", "1", "2", "3", "4", "5", "6", "7", "8", "9">>
RECURSIVE NatToText(_)
NatToText(n) ==
    IF n < 10 THEN <<Digits[n + 1]>>
    ELSE NatToText(n \div 10) \o <<Digits[(n % 10) + 1]>>
\* the Display of an integer
IntToText(i) == IF i < 0 THEN <<"-">> \o NatToText(-i) ELSE NatToText(i)

\* sub occurs in s
Contains(s, sub) ==
    \E i \in 1..(Len(s) - Len(sub) + 1) : SubSeq(s, i, i + Len(sub) - 1) = sub

(***************************************************************************)
(* Host terms (rustler Term) and Typst values                              *)
(***************************************************************************)
\* a host term: tag is what the term is, val what it carries.  A map
\* carries its <<key, term>> pairs in the iteration order of the HashMap it
\* decodes to; keys are unique.
TBool(b) == [tag |-> "bool", val |-> b]
TInt(i) == [tag |-> "int", val |-> i]
\* a float, carried as a count of halves
TFloat(h) == [tag |-> "float", val |-> h]
TStr(s) == [tag |-> "str", val |-> s]
TList(items) == [tag |-> "list", val |-> items]
TMap(pairs) == [tag |-> "map", val |-> pairs]
\* a term of no convertible type: atom, pid, reference, tuple, function
TOther(typ) == [tag |-> "other", val |-> typ]

\* typst::foundations::Value
VNone == [tag |-> "none", val |-> 0]
VAuto == [tag |-> "auto", val |-> 0]
VBool(b) == [tag |-> "bool", val |-> b]
VInt(i) == [tag |-> "int", val |-> i]
VFloat(h) == [tag |-> "float", val |-> h]
VStr(s) == [tag |-> "str", val |-> s]
VArray(items) == [tag |-> "array", val |-> items]
VDict(pairs) == [tag |-> "dict", val |-> pairs]
\* Datetime: date is <<year, month, day>> or <<>>, time is <<hour, minute,
\* second>> or <<>>
VDatetime(date, time) == [tag |-> "datetime", val |-> [date |-> date, time |-> time]]

\* Result<Value, TypstError>
Ok(v) == [ok |-> TRUE, val |-> v, kind |-> "", msg |-> <<>>]
Err(kind, msg) == [ok |-> FALSE, val |-> VNone, kind |-> kind, msg |-> msg]
InvalidInput(msg) == Err("InvalidInput", msg)

\* impl fmt::Display for TypstError
Display(e) ==
    (CASE e.kind = "CompileError" -> <<"C", "o", "m", "p", "i", "l", "a", "t", "i", "o", "n", " ", "e", "r", "r", "o", "r", ":", " ">>
       [] e.kind = "RenderError" -> <<"R", "e", "n", "d", "e", "r", " ", "e", "r", "r", "o", "r", ":", " ">>
       [] e.kind = "PackageError" -> <<"P", "a", "c", "k", "a", "g", "e", " ", "e", "r", "r", "o", "r", ":", " ">>
       [] e.kind = "IoError" -> <<"I", "O", " ", "e", "r", "r", "o", "r", ":", " ">>
       [] OTHER -> <<"I", "n", "v", "a", "l", "i", "d", " ", "i", "n", "p", "u", "t", ":", " ">>) \o e.msg

(***************************************************************************)
(* convert.rs                                                              *)
(***************************************************************************)
\* get_term_type_name
get_term_type_name(term) ==
    CASE term.tag = "bool" -> <<"a", "t", "o", "m">>
      [] term.tag = "str" -> <<"b", "i", "n", "a", "r", "y">>
      [] term.tag = "list" -> <<"l", "i", "s", "t">>
      [] term.tag = "map" -> <<"m", "a", "p">>
      [] term.tag = "int" -> <<"i", "n", "t", "e", "g", "e", "r">>
      [] term.tag = "float" -> <<"f", "l", "o", "a", "t">>
      [] term.val = "atom" -> <<"a", "t", "o", "m">>
      [] term.val = "pid" -> <<"p", "i", "d">>
      [] term.val = "reference" -> <<"r", "e", "f", "e", "r", "e", "n", "c", "e">>
      [] term.val = "tuple" -> <<"t", "u", "p", "l", "e">>
      [] term.val = "function" -> <<"f", "u", "n", "c", "t", "i", "o", "n">>
      [] OTHER -> <<"u", "n", "k", "n", "o", "w", "n">>

\* HashMap::get: the term stored under key, as a one-element or empty sequence
MapGet(pairs, key) ==
    LET hits == {i \in 1..Len(pairs) : pairs[i][1] = key}
    IN IF hits = {} THEN <<>> ELSE <<pairs[CHOOSE i \in hits : TRUE][2]>>

\* map.get(key).and_then(|t| t.decode::<i64>().ok())
GetI64(pairs, key) ==
    LET got == MapGet(pairs, key)
    IN IF got # <<>> /\ got[1].tag = "int" THEN <<got[1].val>> ELSE <<>>

\* the cast `as i32` of an i64: the integers of the model all lie within
\* i32, where the cast changes nothing
AsI32(x) == x
\* the cast `as u8` of an i64 keeps the low eight bits
AsU8(x) == x % 256

\* the days of a month of the proleptic Gregorian calendar
IsLeap(y) == (y % 4 = 0 /\ y % 100 # 0) \/ y % 400 = 0
DaysInMonth(y, m) ==
    IF m = 2 THEN (IF IsLeap(y) THEN 29 ELSE 28)
    ELSE IF m \in {4, 6, 9, 11} THEN 30 ELSE 31
\* what the calendar constructor accepts
ValidDate(y, m, d) ==
    /\ y \in -9999..9999
    /\ m \in 1..12
    /\ d >= 1 /\ d <= DaysInMonth(y, m)
ValidTime(h, mi, s) == h \in 0..23 /\ mi \in 0..59 /\ s \in 0..59

\* Datetime::from_ymd: a one-element or empty sequence
from_ymd(y, m, d) ==
    IF ValidDate(y, m, d) THEN <<VDatetime(<<y, m, d>>, <<>>)>> ELSE <<>>
\* Datetime::from_ymd_hms
from_ymd_hms(y, m, d, h, mi, s) ==
    IF ValidDate(y, m, d) /\ ValidTime(h, mi, s)
    THEN <<VDatetime(<<y, m, d>>, <<h, mi, s>>)>> ELSE <<>>

\* the message of a missing (or non-integer) field
MissingField(kindName, field) ==
    kindName \o <<" ", "m", "i", "s", "s", "i", "n", "g", " ">> \o field \o <<" ", "f", "i", "e", "l", "d">>

K_year == <<"y", "e", "a", "r">>
K_month == <<"m", "o", "n", "t", "h">>
K_day == <<"d", "a", "y">>
K_hour == <<"h", "o", "u", "r">>
K_minute == <<"m", "i", "n", "u", "t", "e">>
K_second == <<"s", "e", "c", "o", "n", "d">>
K_struct == <<"_", "_", "s", "t", "r", "u", "c", "t", "_", "_">>
N_Date == <<"E", "l", "i", "x", "i", "r", ".", "D", "a", "t", "e">>
N_DateTime == <<"E", "l", "i", "x", "i", "r", ".", "D", "a", "t", "e", "T", "i", "m", "e">>
N_NaiveDateTime == <<"E", "l", "i", "x", "i", "r", ".", "N", "a", "i", "v", "e", "D", "a", "t", "e", "T", "i", "m", "e">>

\* the first of the fields, in the order the code reads them, that the map
\* lacks as an integer; <<>> when it has them all
FirstMissing(pairs, fields) ==
    LET miss == {i \in 1..Len(fields) : GetI64(pairs, fields[i]) = <<>>}
    IN IF miss = {} THEN <<>>
       ELSE <<fields[CHOOSE i \in miss : \A j \in miss : i <= j]>>

\* convert_date_to_datetime
convert_date_to_datetime(pairs) ==
    LET missing == FirstMissing(pairs, <<K_year, K_month, K_day>>)
    IN IF missing # <<>>
       THEN InvalidInput(MissingField(<<"D", "a", "t", "e">>, missing[1]))
       ELSE LET year == GetI64(pairs, K_year)[1]
                month == GetI64(pairs, K_month)[1]
                day == GetI64(pairs, K_day)[1]
                datetime == from_ymd(AsI32(year), AsU8(month), AsU8(day))
            IN IF datetime = <<>>
               THEN InvalidInput(<<"I", "n", "v", "a", "l", "i", "d", " ", "d", "a", "t", "e", " ", "v", "a", "l", "u", "e", "s", ":", " ", "y", "e", "a", "r", "=">> \o IntToText(year)
                        \o <<",", " ", "m", "o", "n", "t", "h", "=">> \o IntToText(month)
                        \o <<",", " ", "d", "a", "y", "=">> \o IntToText(day))
               ELSE Ok(datetime[1])

\* convert_datetime_to_datetime
convert_datetime_to_datetime(pairs) ==
    LET missing == FirstMissing(pairs,
                       <<K_year, K_month, K_day, K_hour, K_minute, K_second>>)
    IN IF missing # <<>>
       THEN InvalidInput(MissingField(<<"D", "a", "t", "e", "T", "i", "m", "e">>, missing[1]))
       ELSE LET datetime == from_ymd_hms(
                    AsI32(GetI64(pairs, K_year)[1]),
                    AsU8(GetI64(pairs, K_month)[1]),
                    AsU8(GetI64(pairs, K_day)[1]),
                    AsU8(GetI64(pairs, K_hour)[1]),
                    AsU8(GetI64(pairs, K_minute)[1]),
                    AsU8(GetI64(pairs, K_second)[1]))
            IN IF datetime = <<>>
               THEN InvalidInput(<<"I", "n", "v", "a", "l", "i", "d", " ", "d", "a", "t", "e", "t", "i", "m", "e", " ", "v", "a", "l", "u", "e", "s">>)
               ELSE Ok(datetime[1])

\* convert_naive_datetime_to_datetime
convert_naive_datetime_to_datetime(pairs) == convert_datetime_to_datetime(pairs)

\* the struct name of a map: the string under __struct__, else <<>>
StructName(pairs) ==
    LET got == MapGet(pairs, K_struct)
    IN IF got # <<>> /\ got[1].tag = "str" THEN <<got[1].val>> ELSE <<>>

\* the text after "Unsupported Elixir type '..' for conversion to Typst value"
PathStr(path) ==
    IF path = <<>> THEN <<>>
    ELSE <<" ", "a", "t", " ", "p", "a", "t", "h", " ", "'">> \o Join(path, <<".">>) \o <<"'">>

Unsupported(term, path) ==
    InvalidInput(<<"U", "n", "s", "u", "p", "p", "o", "r", "t", "e", "d", " ", "E", "l", "i", "x", "i", "r", " ", "t", "y", "p", "e", " ", "'">> \o get_term_type_name(term)
        \o <<"'", " ", "f", "o", "r", " ", "c", "o", "n", "v", "e", "r", "s", "i", "o", "n", " ", "t", "o", " ", "T", "y", "p", "s", "t", " ", "v", "a", "l", "u", "e">> \o PathStr(path)
        \o <<".", " ", "S", "u", "p", "p", "o", "r", "t", "e", "d", " ", "t", "y", "p", "e", "s", ":", " ", "b", "o", "o", "l", "e", "a", "n", ",", " ", "i", "n", "t", "e", "g", "e", "r", ",", " ", "f", "l", "o", "a", "t", ",", " ", "s", "t", "r", "i", "n", "g", ",", " ", "l", "i", "s", "t", ",", " ", "m", "a", "p", ",", " ", "D", "a", "t", "e", ",", " ", "D", "a", "t", "e", "T", "i", "m", "e", ",", " ", "N", "a", "i", "v", "e", "D", "a", "t", "e", "T", "i", "m", "e">>)

RECURSIVE term_to_value_with_path(_, _)
RECURSIVE ConvertList(_, _, _, _)
RECURSIVE ConvertMap(_, _, _, _, _)

\* a loop that reports the position of the element, counted from one
ConvertList_CountsFromOne(items, i, path, array) ==
    IF i >= Len(items) THEN Ok(VArray(array))
    ELSE LET new_path == Append(path, <<"[">> \o IntToText(i) \o <<"]">>)
             value == term_to_value_with_path(items[i + 1], new_path)
         IN IF ~value.ok
            THEN InvalidInput(<<"E", "r", "r", "o", "r", " ", "i", "n", " ", "a", "r", "r", "a", "y", " ", "a", "t", " ", "i", "n", "d", "e", "x", " ">> \o IntToText(i + 1)
                     \o <<":", " ">> \o Display(value))
            ELSE ConvertList(items, i + 1, path, Append(array, value.val))

\* the loop over the elements of a list, from index i (0-based) on
ConvertList(items, i, path, array) ==
    IF i >= Len(items) THEN Ok(VArray(array))
    ELSE LET new_path == Append(path, <<"[">> \o IntToText(i) \o <<"]">>)
             value == term_to_value_with_path(items[i + 1], new_path)
         IN IF ~value.ok
            THEN InvalidInput(<<"E", "r", "r", "o", "r", " ", "i", "n", " ", "a", "r", "r", "a", "y", " ", "a", "t", " ", "i", "n", "d", "e", "x", " ">> \o IntToText(i)
                     \o <<":", " ">> \o Display(value))
            ELSE ConvertList(items, i + 1, path, Append(array, value.val))

\* the start of the message that wraps a failure inside a map or a struct
FieldErrorPrefix(is_struct) ==
    IF is_struct THEN <<"E", "r", "r", "o", "r", " ", "i", "n", " ", "s", "t", "r", "u", "c", "t", " ", "f", "i", "e", "l", "d", " ", "'">> ELSE <<"E", "r", "r", "o", "r", " ", "i", "n", " ", "m", "a", "p", " ", "k", "e", "y", " ", "'">>

\* the loop over the entries of a map, from position i on; the entry
\* __struct__ of a struct is skipped
ConvertMap(pairs, i, path, dict, is_struct) ==
    IF i > Len(pairs) THEN Ok(VDict(dict))
    ELSE IF is_struct /\ pairs[i][1] = K_struct
    THEN ConvertMap(pairs, i + 1, path, dict, is_struct)
    ELSE LET key == pairs[i][1]
             new_path == Append(path, key)
             value == term_to_value_with_path(pairs[i][2], new_path)
         IN IF ~value.ok
            THEN InvalidInput(FieldErrorPrefix(is_struct) \o key \o <<"'", ":", " ">>
                     \o Display(value))
            ELSE ConvertMap(pairs, i + 1, path,
                            Append(dict, <<key, value.val>>), is_struct)

\* term_to_value_with_path
term_to_value_with_path(term, path) ==
    CASE term.tag = "bool" -> Ok(VBool(term.val))
      [] term.tag = "int" -> Ok(VInt(term.val))
      [] term.tag = "float" -> Ok(VFloat(term.val))
      [] term.tag = "str" -> Ok(VStr(term.val))
      [] term.tag = "list" -> ConvertList(term.val, 0, path, <<>>)
      [] term.tag = "map" ->
            LET struct_name == StructName(term.val)
            IN IF struct_name = <<>>
               THEN ConvertMap(term.val, 1, path, <<>>, FALSE)
               ELSE IF struct_name[1] = N_Date
               THEN convert_date_to_datetime(term.val)
               ELSE IF struct_name[1] = N_DateTime
               THEN convert_datetime_to_datetime(term.val)
               ELSE IF struct_name[1] = N_NaiveDateTime
               THEN convert_naive_datetime_to_datetime(term.val)
               ELSE ConvertMap(term.val, 1, path, <<>>, TRUE)
      [] OTHER -> Unsupported(term, path)

\* term_to_value
term_to_value(term) == term_to_value_with_path(term, <<>>)

RECURSIVE ConvertVariables(_, _, _)
\* the loop of terms_to_dict over the entries of the variables map
ConvertVariables(pairs, i, dict) ==
    IF i > Len(pairs) THEN Ok(VDict(dict))
    ELSE LET value == term_to_value(pairs[i][2])
         IN IF ~value.ok
            THEN InvalidInput(<<"E", "r", "r", "o", "r", " ", "c", "o", "n", "v", "e", "r", "t", "i", "n", "g", " ", "v", "a", "r", "i", "a", "b", "l", "e", " ", "'">> \o pairs[i][1]
                     \o <<"'", ":", " ">> \o Display(value))
            ELSE ConvertVariables(pairs, i + 1, Append(dict, <<pairs[i][1], value.val>>))

\* terms_to_dict
terms_to_dict(term) ==
    IF term.tag # "map"
    THEN InvalidInput(<<"E", "x", "p", "e", "c", "t", "e", "d", " ", "a", " ", "m", "a", "p", " ", "f", "o", "r", " ", "v", "a", "r", "i", "a", "b", "l", "e", "s">>)
    ELSE ConvertVariables(term.val, 1, <<>>)

(***************************************************************************)
(* world.rs: literal rendering of values and construction of the source    *)
(***************************************************************************)
\* f64::to_string of a count of halves
FloatToText(h) ==
    IF h % 2 = 0 THEN IntToText(h \div 2)
    ELSE (IF h < 0 THEN <<"-">> ELSE <<>>)
         \o NatToText((IF h < 0 THEN -h ELSE h) \div 2) \o <<".", "5">>

\* s.replace("\"", "\\\"")
EscapeQuotes(s) == ReplaceChar(s, "\"", <<"\\", "\"">>)
\* k.replace('\\', "\\\\").replace('"', "\\\"")
EscapeKey(k) == ReplaceChar(ReplaceChar(k, "\\", <<"\\", "\\">>), "\"", <<"\\", "\"">>)

\* the Datetime arm of value_to_typst_repr
DatetimeRepr(dt) ==
    IF dt.date # <<>> /\ dt.time # <<>>
    THEN <<"d", "a", "t", "e", "t", "i", "m", "e", "(", "y", "e", "a", "r", ":", " ">> \o IntToText(dt.date[1])
         \o <<",", " ", "m", "o", "n", "t", "h", ":", " ">> \o IntToText(dt.date[2])
         \o <<",", " ", "d", "a", "y", ":", " ">> \o IntToText(dt.date[3])
         \o <<",", " ", "h", "o", "u", "r", ":", " ">> \o IntToText(dt.time[1])
         \o <<",", " ", "m", "i", "n", "u", "t", "e", ":", " ">> \o IntToText(dt.time[2])
         \o <<",", " ", "s", "e", "c", "o", "n", "d", ":", " ">> \o IntToText(dt.time[3]) \o <<")">>
    ELSE IF dt.date # <<>>
    THEN <<"d", "a", "t", "e", "t", "i", "m", "e", "(", "y", "e", "a", "r", ":", " ">> \o IntToText(dt.date[1])
         \o <<",", " ", "m", "o", "n", "t", "h", ":", " ">> \o IntToText(dt.date[2])
         \o <<",", " ", "d", "a", "y", ":", " ">> \o IntToText(dt.date[3]) \o <<")">>
    ELSE IF dt.time # <<>>
    THEN <<"d", "a", "t", "e", "t", "i", "m", "e", "(", "h", "o", "u", "r", ":", " ">> \o IntToText(dt.time[1])
         \o <<",", " ", "m", "i", "n", "u", "t", "e", ":", " ">> \o IntToText(dt.time[2])
         \o <<",", " ", "s", "e", "c", "o", "n", "d", ":", " ">> \o IntToText(dt.time[3]) \o <<")">>
    ELSE <<"n", "o", "n", "e">>

\* a key left bare when it holds nothing to escape
KeyRepr_BareWhenPlain(k) ==
    IF EscapeKey(k) = k THEN k ELSE <<"\"">> \o EscapeKey(k) \o <<"\"">>

\* the text a dictionary key is emitted as
KeyRepr(k) == <<"\"">> \o EscapeKey(k) \o <<"\"">>

RECURSIVE value_to_typst_repr(_)
\* TypstWorld::value_to_typst_repr
value_to_typst_repr(value) ==
    CASE value.tag = "none" -> <<"n", "o", "n", "e">>
      [] value.tag = "auto" -> <<"a", "u", "t", "o">>
      [] value.tag = "bool" -> (IF value.val THEN <<"t", "r", "u", "e">> ELSE <<"f", "a", "l", "s", "e">>)
      [] value.tag = "int" -> IntToText(value.val)
      [] value.tag = "float" -> FloatToText(value.val)
      [] value.tag = "str" -> <<"\"">> \o EscapeQuotes(value.val) \o <<"\"">>
      [] value.tag = "array" ->
            <<"(">> \o Join([i \in 1..Len(value.val) |->
                                value_to_typst_repr(value.val[i])], <<",", " ">>)
                    \o <<")">>
      [] value.tag = "dict" ->
            <<"(">> \o Join([i \in 1..Len(value.val) |->
                                KeyRepr(value.val[i][1]) \o <<":", " ">>
                                \o value_to_typst_repr(value.val[i][2])], <<",", " ">>)
                    \o <<")">>
      [] value.tag = "datetime" -> DatetimeRepr(value.val)
      [] OTHER -> <<"n", "o", "n", "e">>

RECURSIVE VarDeclarations(_, _)
\* the loop of TypstWorld::new over variables.iter(), from position i on
VarDeclarations(pairs, i) ==
    IF i > Len(pairs) THEN <<>>
    ELSE <<"#", "l", "e", "t", " ">> \o pairs[i][1] \o <<" ", "=", " ">>
         \o value_to_typst_repr(pairs[i][2]) \o <<"\n">>
         \o VarDeclarations(pairs, i + 1)

\* a source without the line between the declarations and the code
WorldSource_NoBlankLine(source_code, variables) ==
    VarDeclarations(variables.val, 1) \o source_code

\* TypstWorld::new: the text of the main source
WorldSource(source_code, variables) ==
    LET var_declarations == VarDeclarations(variables.val, 1)
    IN IF var_declarations = <<>> THEN source_code
       ELSE var_declarations \o <<"\n">> \o source_code

(***************************************************************************)
(* lib.rs: the document metadata statement                                 *)
(***************************************************************************)
UpperLetters == <<"A", "B", "C", "D", "E", "F", "G", "H", "I", "J", "K", "L", "M", "N", "O", "P", "Q", "R", "S", "T", "U", "V", "W", "X", "Y", "Z">>
LowerLetters == <<"a", "b", "c", "d", "e", "f", "g", "h", "i", "j", "k", "l", "m", "n", "o", "p", "q", "r", "s", "t", "u", "v", "w", "x", "y", "z">>
\* str::to_lowercase
ToLowercase(s) ==
    [i \in 1..Len(s) |->
        IF \E j \in 1..26 : UpperLetters[j] = s[i]
        THEN LowerLetters[CHOOSE j \in 1..26 : UpperLetters[j] = s[i]]
        ELSE s[i]]

IsSpace(c) == c \in {" ", "\t", "\n", "\r"}
RECURSIVE TrimStart(_)
TrimStart(s) ==
    IF s # <<>> /\ IsSpace(Head(s)) THEN TrimStart(Tail(s)) ELSE s
RECURSIVE TrimEnd(_)
TrimEnd(s) ==
    IF s # <<>> /\ IsSpace(s[Len(s)]) THEN TrimEnd(SubSeq(s, 1, Len(s) - 1)) ELSE s
\* str::trim
Trim(s) == TrimEnd(TrimStart(s))

RECURSIVE Split(_, _)
\* str::split(c): the segments between the occurrences of c
Split(s, c) ==
    LET hits == {i \in 1..Len(s) : s[i] = c}
    IN IF hits = {} THEN <<s>>
       ELSE LET i == CHOOSE i \in hits : \A j \in hits : i <= j
            IN <<SubSeq(s, 1, i - 1)>> \o Split(SubSeq(s, i + 1, Len(s)), c)

\* a quoted literal with its quotes escaped
Quoted(s) == <<"\"">> \o EscapeQuotes(s) \o <<"\"">>

M_title == <<"t", "i", "t", "l", "e">>
M_author == <<"a", "u", "t", "h", "o", "r">>
M_description == <<"d", "e", "s", "c", "r", "i", "p", "t", "i", "o", "n">>
M_keywords == <<"k", "e", "y", "w", "o", "r", "d", "s">>
M_date == <<"d", "a", "t", "e">>

\* the part pushed for a string field of the metadata, if the key is there
StringPart(metadata, key, label) ==
    LET got == MapGet(metadata, key)
    IN IF got # <<>> THEN <<label \o Quoted(got[1])>> ELSE <<>>

KeywordsPart(metadata) ==
    LET keywords == MapGet(metadata, M_keywords)
    IN IF keywords # <<>>
       THEN LET segs == Split(keywords[1], ",")
                keywords_list == [i \in 1..Len(segs) |-> Quoted(Trim(segs[i]))]
            IN <<<<"k", "e", "y", "w", "o", "r", "d", "s", ":", " ", "(">> \o Join(keywords_list, <<",", " ">>) \o <<")">>>>
       ELSE <<>>

DatePart(metadata) ==
    LET date == MapGet(metadata, M_date)
    IN IF date # <<>>
       THEN LET date_lower == ToLowercase(date[1])
            IN IF date_lower = <<"a", "u", "t", "o">> THEN <<<<"d", "a", "t", "e", ":", " ", "a", "u", "t", "o">>>>
               ELSE IF date_lower = <<"n", "o", "n", "e">> THEN <<<<"d", "a", "t", "e", ":", " ", "n", "o", "n", "e">>>>
               ELSE <<>>
       ELSE <<>>

\* generate_document_metadata; metadata is the HashMap<String, String> as
\* its <<key, text>> pairs
generate_document_metadata(metadata) ==
    IF metadata = <<>> THEN <<>>
    ELSE LET parts == StringPart(metadata, M_title, <<"t", "i", "t", "l", "e", ":", " ">>)
                      \o StringPart(metadata, M_author, <<"a", "u", "t", "h", "o", "r", ":", " ">>)
                      \o StringPart(metadata, M_description, <<"d", "e", "s", "c", "r", "i", "p", "t", "i", "o", "n", ":", " ">>)
                      \o KeywordsPart(metadata)
                      \o DatePart(metadata)
         IN IF parts = <<>> THEN <<>>
            ELSE <<"#", "s", "e", "t", " ", "d", "o", "c", "u", "m", "e", "n", "t", "(">> \o Join(parts, <<",", " ">>) \o <<")", "\n">>

\* an assembly that writes a statement without fields for empty metadata
PrependMetadata_EmptyStatement(metadata_stmt, source) ==
    IF metadata_stmt = <<>> THEN <<"#", "s", "e", "t", " ", "d", "o", "c", "u", "m", "e", "n", "t", "(", ")", "\n">> \o source ELSE metadata_stmt \o source

\* compile_to_pdf_with_full_options: "Prepend metadata to source"
PrependMetadata(metadata_stmt, source) ==
    IF metadata_stmt = <<>> THEN source ELSE metadata_stmt \o source

(***************************************************************************)
(* Package resolution: world.rs resolve_path, packages.rs download_package *)
(***************************************************************************)
\* number of engine threads that query a World
NThreads == 3
\* resolutions started in total, over all threads
MaxCalls == 3

Threads == 1..NThreads
\* two World instances share the on-disk cache; the last thread queries
\* World 2, every other thread queries World 1
Worlds == {1, 2}
WorldOf(t) == IF t < NThreads THEN 1 ELSE 2
ThreadsOf(w) == {t \in Threads : WorldOf(t) = w}

\* package identifiers and the virtual paths asked of them
Pkgs == {"p1", "p2"}
Files == {"a", "b", "up"}
\* the files the engine asks for while threads contend: the paths that stay
\* below the package root
Asked == {<<p, f>> : p \in Pkgs, f \in {"a", "b"}}
\* entries of the registry's archive of each package, in archive order;
\* p2 lacks "b" (a package without the file that is asked of it)
Archive(p) == IF p = "p1" THEN <<"a", "b">> ELSE <<"a">>
ArchiveFiles(p) == {Archive(p)[i] : i \in 1..Len(Archive(p))}

\* self.package_paths: the extra package directories, in configured order,
\* each given by the <<package, file>> pairs that exist below it.  They are
\* never written by the program.
PackagePaths == << {}, {<<"p2", "a">>}, {<<"p2", "a">>} >>
InExtra(p) == \E i \in 1..Len(PackagePaths) : \E f \in Files : <<p, f>> \in PackagePaths[i]

\* VirtualPath::resolve gives None when the path lexically escapes the
\* root, as "up" (the path ../up) does
VResolves(f) == f # "up"
\* id.vpath().as_rootless_path()
RootlessPath(f) == IF f = "up" THEN <<".", ".", "/", "u", "p">> ELSE IF f = "a" THEN <<"a", ".", "t", "y", "p">> ELSE <<"b", ".", "t", "y", "p">>

NoResult == [kind |-> "none", dir |-> -1, variant |-> "", msg |-> <<>>]
\* dir 0 is the cache directory <cacheRoot>/<ns>/<name>/<version>,
\* dir i > 0 the i-th extra package directory
OkPath(d) == [kind |-> "ok", dir |-> d, variant |-> "", msg |-> <<>>]
\* Err(FileError::Other(Some(msg))) and Err(FileError::NotFound(path))
ErrRes(variant, msg) == [kind |-> "err", dir |-> -1, variant |-> variant, msg |-> msg]
FileErrorOther(msg) == ErrRes("Other", msg)
FileErrorNotFound(path) == ErrRes("NotFound", path)

PackageError(msg) == Err("PackageError", msg)
IoError(msg) == Err("IoError", msg)

\* spec.name and spec.version of the package identifiers
SpecName(p) == IF p = "p1" THEN <<"p", "1">> ELSE <<"p", "2">>
SpecVersion(p) == IF p = "p1" THEN <<"0", ".", "1", ".", "0">> ELSE <<"0", ".", "2", ".", "0">>
\* download_package: package_name = "{name}-{version}"
PackageName(p) == SpecName(p) \o <<"-">> \o SpecVersion(p)

\* the non-success statuses the registry answers with
StatusCodes == {404, 503}
\* Display of the response status: the code and its canonical reason
StatusText(c) ==
    IntToText(c) \o <<" ">> \o (IF c = 404 THEN <<"N", "o", "t", " ", "F", "o", "u", "n", "d">> ELSE <<"S", "e", "r", "v", "i", "c", "e", " ", "U", "n", "a", "v", "a", "i", "l", "a", "b", "l", "e">>)
\* what the HTTP client reports when the request or the reading of the body
\* fails
Causes == << <<"c", "o", "n", "n", "e", "c", "t", "i", "o", "n", " ", "r", "e", "f", "u", "s", "e", "d">>, <<"o", "p", "e", "r", "a", "t", "i", "o", "n", " ", "t", "i", "m", "e", "d", " ", "o", "u", "t">> >>
\* what the file system and the archive reader report
MkdirCause == <<"P", "e", "r", "m", "i", "s", "s", "i", "o", "n", " ", "d", "e", "n", "i", "e", "d">>
UnpackCause == <<"u", "n", "e", "x", "p", "e", "c", "t", "e", "d", " ", "e", "n", "d", " ", "o", "f", " ", "f", "i", "l", "e">>

Min(S) == CHOOSE x \in S : \A y \in S : x <= y

\* how a fetch ended: "none" while no response has arrived
NoHttp == [outcome |-> "none", detail |-> 0]
AllHttpOutcomes ==
    {[outcome |-> "ok", detail |-> 0]}
    \cup {[outcome |-> o, detail |-> i] : o \in {"transport", "body"}, i \in 1..Len(Causes)}
    \cup {[outcome |-> "status", detail |-> c] : c \in StatusCodes}
\* one outcome of each kind, for the runs in which threads contend
HttpOutcomes ==
    {[outcome |-> "ok", detail |-> 0],
     [outcome |-> "transport", detail |-> 1],
     [outcome |-> "status", detail |-> Min(StatusCodes)],
     [outcome |-> "body", detail |-> 1]}

\* the TypstError download_package returns for a failed request
HttpError(p, h) ==
    CASE h.outcome = "transport" ->
             PackageError(<<"F", "a", "i", "l", "e", "d", " ", "t", "o", " ", "d", "o", "w", "n", "l", "o", "a", "d", " ", "p", "a", "c", "k", "a", "g", "e", ":", " ">> \o Causes[h.detail])
      [] h.outcome = "status" ->
             PackageError(<<"F", "a", "i", "l", "e", "d", " ", "t", "o", " ", "d", "o", "w", "n", "l", "o", "a", "d", " ", "p", "a", "c", "k", "a", "g", "e", " ">> \o PackageName(p) \o <<":", " ", "H", "T", "T", "P", " ">> \o StatusText(h.detail))
      [] OTHER ->
             PackageError(<<"F", "a", "i", "l", "e", "d", " ", "t", "o", " ", "r", "e", "a", "d", " ", "p", "a", "c", "k", "a", "g", "e", " ", "d", "a", "t", "a", ":", " ">> \o Causes[h.detail])
MkdirError == IoError(<<"F", "a", "i", "l", "e", "d", " ", "t", "o", " ", "c", "r", "e", "a", "t", "e", " ", "c", "a", "c", "h", "e", " ", "d", "i", "r", "e", "c", "t", "o", "r", "y", ":", " ">> \o MkdirCause)
UnpackError == PackageError(<<"F", "a", "i", "l", "e", "d", " ", "t", "o", " ", "e", "x", "t", "r", "a", "c", "t", " ", "p", "a", "c", "k", "a", "g", "e", ":", " ">> \o UnpackCause)
\* resolve_path: map_err(|e| FileError::Other(Some(e.to_string().into())))
DownloadFailed(e) == FileErrorOther(Display(e))

VARIABLES
    pc,          \* position of each thread inside resolve_path / download_package
    pkg,         \* package of the thread's current resolution
    file,        \* virtual path of the thread's current resolution
    result,      \* what the thread's current resolution returned
    calls,       \* resolutions started so far, over all threads
    nfetch,      \* HTTP requests issued by the thread's current resolution
    dirAtStart,  \* whether the cache entry directory existed when the resolution started
    afterFirst,  \* whether a resolution of the package through the cache on the same
                 \* World had already returned when the resolution started
    lock,        \* download_lock of each World: 0 free, else the holding thread
    disk,        \* the shared cache: per package, parent dirs / entry dir / files
    next,        \* index of the next archive entry the unpacking thread writes
    fetchCount,  \* HTTP requests issued per World and package
    extractCount,\* archive extractions started per World and package
    failed,      \* per package: some fetch-and-extract attempt has failed
    http,        \* how the HTTP request of the thread's current resolution ended
    \* a compile request (lib.rs compile_to_pdf_with_full_options)
    rpc,          \* position of the request handler
    template,     \* source: the template text
    metadata,     \* metadata: <<key, text>> pairs
    variables,    \* variables: the host term
    metadata_stmt,\* the generated metadata statement
    var_dict,     \* the result of terms_to_dict
    main_source,  \* the text of the World's main source
    world_built,  \* a TypstWorld has been constructed
    compiled,     \* typst::compile has been called
    response,     \* what the handler returned
    \* one application of a conversion or of the literal rendering
    phase,        \* "in" before, "out" after
    term,         \* the host term given to term_to_value
    converted,    \* its result
    value,        \* the value given to value_to_typst_repr
    rendered      \* its text

worldVars == <<pc, pkg, file, result, calls, nfetch, dirAtStart, afterFirst, lock, disk,
               next, fetchCount, extractCount, failed, http>>
reqVars == <<rpc, template, metadata, variables, metadata_stmt, var_dict, main_source,
             world_built, compiled, response>>
pureVars == <<phase, term, converted, value, rendered>>
vars == <<worldVars, reqVars, pureVars>>

\* a World right after TypstWorld::new, over an empty package cache
InitWorld ==
    /\ pc = [t \in Threads |-> "idle"]
    /\ pkg = [t \in Threads |-> "p1"]
    /\ file = [t \in Threads |-> "a"]
    /\ result = [t \in Threads |-> NoResult]
    /\ calls = 0
    /\ nfetch = [t \in Threads |-> 0]
    /\ dirAtStart = [t \in Threads |-> FALSE]
    /\ afterFirst = [t \in Threads |-> FALSE]
    /\ lock = [w \in Worlds |-> 0]
    /\ disk = [p \in Pkgs |-> [parent |-> FALSE, dir |-> FALSE, files |-> {}]]
    /\ next = [t \in Threads |-> 1]
    /\ fetchCount = [w \in Worlds |-> [p \in Pkgs |-> 0]]
    /\ extractCount = [w \in Worlds |-> [p \in Pkgs |-> 0]]
    /\ failed = [p \in Pkgs |-> FALSE]
    /\ http = [t \in Threads |-> NoHttp]

\* Result<_, String> of the request handler
Response(ok, msg) == [ok |-> ok, msg |-> msg]

\* no request is being handled
NoRequest ==
    /\ rpc = "idle"
    /\ template = <<>>
    /\ metadata = <<>>
    /\ variables = TMap(<<>>)
    /\ metadata_stmt = <<>>
    /\ var_dict = Ok(VDict(<<>>))
    /\ main_source = <<>>
    /\ world_built = FALSE
    /\ compiled = FALSE
    /\ response = Response(TRUE, <<>>)

\* no conversion or rendering is being applied
NoPure ==
    /\ phase = "idle"
    /\ term = TInt(0)
    /\ converted = Ok(VNone)
    /\ value = VNone
    /\ rendered = <<>>

Init == InitWorld /\ NoRequest /\ NoPure

\* resolved.exists() for the file below the cache entry directory
CacheFileExists(p, f) == VResolves(f) /\ disk[p].dir /\ f \in disk[p].files
\* a download_package that never finds the entry directory
PackageDirExists_Never(p) == FALSE
\* package_dir.exists()
PackageDirExists(p) == disk[p].dir

\* Mutex::lock succeeds when nobody holds the World's download_lock
LockFree(w) == lock[w] = 0

\* a guard that is never dropped
Unlocked_Never(t) == lock
\* the guard _lock is dropped when resolve_path returns
Unlocked(t) == [lock EXCEPT ![WorldOf(t)] = IF @ = t THEN 0 ELSE @]

\* resolve_path returns r
Return(t, r) ==
    /\ pc' = [pc EXCEPT ![t] = "done"]
    /\ result' = [result EXCEPT ![t] = r]
    /\ lock' = Unlocked(t)

\* indices of the extra package directories that hold the file
ExtraHits(p, f) ==
    {i \in 1..Len(PackagePaths) : VResolves(f) /\ <<p, f>> \in PackagePaths[i]}
Max(S) == CHOOSE x \in S : \A y \in S : x >= y
\* a loop that keeps the last directory that has the file
FirstExtra_Last(p, f) == Max(ExtraHits(p, f))
\* the for loop over package_paths returns the first directory that has the file
FirstExtra(p, f) == Min(ExtraHits(p, f))

\* some resolution of p on World w has returned without a hit in package_paths
ReturnedBefore(w, p) ==
    \E u \in ThreadsOf(w) : pc[u] = "done" /\ pkg[u] = p /\ result[u].dir < 1

\* resolve_path is called for file f of package p and searches package_paths
ResolvePath(t, p, f) ==
    /\ pc[t] \in {"idle", "done"}
    /\ calls < MaxCalls
    /\ calls' = calls + 1
    /\ nfetch' = [nfetch EXCEPT ![t] = 0]
    /\ http' = [http EXCEPT ![t] = NoHttp]
    /\ pkg' = [pkg EXCEPT ![t] = p]
    /\ file' = [file EXCEPT ![t] = f]
    /\ dirAtStart' = [dirAtStart EXCEPT ![t] = PackageDirExists(p)]
    /\ afterFirst' = [afterFirst EXCEPT ![t] = ReturnedBefore(WorldOf(t), p)]
    /\ IF ExtraHits(p, f) # {}
       THEN Return(t, OkPath(FirstExtra(p, f)))
       ELSE /\ pc' = [pc EXCEPT ![t] = "cache"]
            /\ result' = [result EXCEPT ![t] = NoResult]
            /\ UNCHANGED lock
    /\ UNCHANGED <<disk, next, fetchCount, extractCount, failed>>
    /\ UNCHANGED <<reqVars, pureVars>>

SearchPackagePaths(t) == \E a \in Asked : ResolvePath(t, a[1], a[2])

\* the existence check in the cache directory before the lock is taken
CheckCache(t) ==
    /\ pc[t] = "cache"
    /\ IF CacheFileExists(pkg[t], file[t])
       THEN Return(t, OkPath(0))
       ELSE /\ pc' = [pc EXCEPT ![t] = "lock"]
            /\ UNCHANGED <<result, lock>>
    /\ UNCHANGED <<pkg, file, calls, nfetch, dirAtStart, afterFirst, disk, next,
                   fetchCount, extractCount, failed, http>>
    /\ UNCHANGED <<reqVars, pureVars>>

\* a lock() that does not wait for the holder
AcquireLock_NoWait(t) ==
    /\ pc[t] = "lock"
    /\ lock' = [lock EXCEPT ![WorldOf(t)] = t]
    /\ pc' = [pc EXCEPT ![t] = "recheck"]
    /\ UNCHANGED <<pkg, file, result, calls, nfetch, dirAtStart, afterFirst, disk, next,
                   fetchCount, extractCount, failed, http>>
    /\ UNCHANGED <<reqVars, pureVars>>

\* self.download_lock.lock()
AcquireLock(t) ==
    /\ pc[t] = "lock"
    /\ LockFree(WorldOf(t))
    /\ lock' = [lock EXCEPT ![WorldOf(t)] = t]
    /\ pc' = [pc EXCEPT ![t] = "recheck"]
    /\ UNCHANGED <<pkg, file, result, calls, nfetch, dirAtStart, afterFirst, disk, next,
                   fetchCount, extractCount, failed, http>>
    /\ UNCHANGED <<reqVars, pureVars>>

\* a re-check whose guard is dropped once the check is over
Recheck_ReleasesLock(t) ==
    /\ pc[t] = "recheck"
    /\ IF CacheFileExists(pkg[t], file[t])
       THEN Return(t, OkPath(0))
       ELSE /\ pc' = [pc EXCEPT ![t] = "download"]
            /\ lock' = Unlocked(t)
            /\ UNCHANGED result
    /\ UNCHANGED <<pkg, file, calls, nfetch, dirAtStart, afterFirst, disk, next,
                   fetchCount, extractCount, failed, http>>
    /\ UNCHANGED <<reqVars, pureVars>>

\* the second existence check, made with the lock held
Recheck(t) ==
    /\ pc[t] = "recheck"
    /\ IF CacheFileExists(pkg[t], file[t])
       THEN Return(t, OkPath(0))
       ELSE /\ pc' = [pc EXCEPT ![t] = "download"]
            /\ UNCHANGED <<result, lock>>
    /\ UNCHANGED <<pkg, file, calls, nfetch, dirAtStart, afterFirst, disk, next,
                   fetchCount, extractCount, failed, http>>
    /\ UNCHANGED <<reqVars, pureVars>>

\* the path resolve_path builds from the directory download_package returned:
\* id.vpath().resolve(&downloaded_dir), NotFound when it gives None
ResolveDownloaded(t) ==
    IF VResolves(file[t]) THEN OkPath(0) ELSE FileErrorNotFound(RootlessPath(file[t]))

\* a download_package without the check of the entry directory
DownloadPackage_AlwaysFetch(t) ==
    /\ pc[t] = "download"
    /\ pc' = [pc EXCEPT ![t] = "inflight"]
    /\ nfetch' = [nfetch EXCEPT ![t] = @ + 1]
    /\ fetchCount' = [fetchCount EXCEPT ![WorldOf(t)][pkg[t]] = @ + 1]
    /\ UNCHANGED <<result, lock>>
    /\ UNCHANGED <<pkg, file, calls, dirAtStart, afterFirst, disk, next, extractCount,
                   failed, http>>
    /\ UNCHANGED <<reqVars, pureVars>>

\* download_package: an existing package_dir is returned at once, else the
\* HTTP request is issued
DownloadPackage(t) ==
    /\ pc[t] = "download"
    /\ IF PackageDirExists(pkg[t])
       THEN /\ Return(t, ResolveDownloaded(t))
            /\ UNCHANGED <<nfetch, fetchCount>>
       ELSE /\ pc' = [pc EXCEPT ![t] = "inflight"]
            /\ nfetch' = [nfetch EXCEPT ![t] = @ + 1]
            /\ fetchCount' = [fetchCount EXCEPT ![WorldOf(t)][pkg[t]] = @ + 1]
            /\ UNCHANGED <<result, lock>>
    /\ UNCHANGED <<pkg, file, calls, dirAtStart, afterFirst, disk, next, extractCount,
                   failed, http>>
    /\ UNCHANGED <<reqVars, pureVars>>

\* a client that issues the request once more after a failure
HttpEnds_RetriesOnce(t, h) ==
    /\ pc[t] = "inflight"
    /\ http' = [http EXCEPT ![t] = h]
    /\ IF h.outcome = "ok"
       THEN /\ pc' = [pc EXCEPT ![t] = "mkdir"]
            /\ UNCHANGED <<result, lock, failed, nfetch, fetchCount>>
       ELSE IF nfetch[t] < 2
       THEN /\ nfetch' = [nfetch EXCEPT ![t] = @ + 1]
            /\ fetchCount' = [fetchCount EXCEPT ![WorldOf(t)][pkg[t]] = @ + 1]
            /\ UNCHANGED <<pc, result, lock, failed>>
       ELSE /\ Return(t, DownloadFailed(HttpError(pkg[t], h)))
            /\ failed' = [failed EXCEPT ![pkg[t]] = TRUE]
            /\ UNCHANGED <<nfetch, fetchCount>>
    /\ UNCHANGED <<pkg, file, calls, dirAtStart, afterFirst, disk, next, extractCount>>
    /\ UNCHANGED <<reqVars, pureVars>>

\* a download that has made the entry directory before the request ends
HttpEnds_DirFirst(t, h) ==
    /\ pc[t] = "inflight"
    /\ http' = [http EXCEPT ![t] = h]
    /\ disk' = [disk EXCEPT ![pkg[t]].parent = TRUE, ![pkg[t]].dir = TRUE]
    /\ IF h.outcome = "ok"
       THEN /\ pc' = [pc EXCEPT ![t] = "mkdir"]
            /\ UNCHANGED <<result, lock, failed>>
       ELSE /\ Return(t, DownloadFailed(HttpError(pkg[t], h)))
            /\ failed' = [failed EXCEPT ![pkg[t]] = TRUE]
    /\ UNCHANGED <<pkg, file, calls, nfetch, dirAtStart, afterFirst, next,
                   fetchCount, extractCount>>
    /\ UNCHANGED <<reqVars, pureVars>>

\* the request ends with h: transport failure, non-success status, failure
\* to read the body, or the archive bytes
HttpEnds(t, h) ==
    /\ pc[t] = "inflight"
    /\ http' = [http EXCEPT ![t] = h]
    /\ IF h.outcome = "ok"
       THEN /\ pc' = [pc EXCEPT ![t] = "mkdir"]
            /\ UNCHANGED <<result, lock, failed>>
       ELSE /\ Return(t, DownloadFailed(HttpError(pkg[t], h)))
            /\ failed' = [failed EXCEPT ![pkg[t]] = TRUE]
    /\ UNCHANGED <<pkg, file, calls, nfetch, dirAtStart, afterFirst, disk, next,
                   fetchCount, extractCount>>
    /\ UNCHANGED <<reqVars, pureVars>>

HttpResponse(t) == \E h \in HttpOutcomes : HttpEnds(t, h)

\* fs::create_dir_all(package_dir.parent())
CreateParent(t) ==
    /\ pc[t] = "mkdir"
    /\ \/ /\ disk' = [disk EXCEPT ![pkg[t]].parent = TRUE]
          /\ pc' = [pc EXCEPT ![t] = "unpack"]
          /\ UNCHANGED <<result, lock, failed>>
       \/ /\ Return(t, DownloadFailed(MkdirError))
          /\ failed' = [failed EXCEPT ![pkg[t]] = TRUE]
          /\ UNCHANGED disk
    /\ UNCHANGED <<pkg, file, calls, nfetch, dirAtStart, afterFirst, next,
                   fetchCount, extractCount, http>>
    /\ UNCHANGED <<reqVars, pureVars>>

\* archive.unpack(&package_dir) starts: the entry directory is created
UnpackBegin(t) ==
    /\ pc[t] = "unpack"
    /\ extractCount' = [extractCount EXCEPT ![WorldOf(t)][pkg[t]] = @ + 1]
    /\ \/ /\ disk' = [disk EXCEPT ![pkg[t]].dir = TRUE]
          /\ pc' = [pc EXCEPT ![t] = "entries"]
          /\ UNCHANGED <<result, lock, failed>>
       \/ /\ Return(t, DownloadFailed(UnpackError))
          /\ failed' = [failed EXCEPT ![pkg[t]] = TRUE]
          /\ UNCHANGED disk
    /\ UNCHANGED <<pkg, file, calls, nfetch, dirAtStart, afterFirst, next, fetchCount, http>>
    /\ UNCHANGED <<reqVars, pureVars>>

\* archive.unpack writes the entries one after the other into package_dir;
\* a corrupt or truncated stream makes it stop with an error at any entry
UnpackEntry(t) ==
    /\ pc[t] = "entries"
    /\ \/ /\ next[t] <= Len(Archive(pkg[t]))
          /\ disk' = [disk EXCEPT ![pkg[t]].files = @ \cup {Archive(pkg[t])[next[t]]}]
          /\ next' = [next EXCEPT ![t] = @ + 1]
          /\ UNCHANGED <<pc, result, lock, failed>>
       \/ /\ next[t] > Len(Archive(pkg[t]))
          /\ Return(t, ResolveDownloaded(t))
          /\ next' = [next EXCEPT ![t] = 1]
          /\ UNCHANGED <<disk, failed>>
       \/ /\ Return(t, DownloadFailed(UnpackError))
          /\ failed' = [failed EXCEPT ![pkg[t]] = TRUE]
          /\ next' = [next EXCEPT ![t] = 1]
          /\ UNCHANGED disk
    /\ UNCHANGED <<pkg, file, calls, nfetch, dirAtStart, afterFirst, fetchCount,
                   extractCount, http>>
    /\ UNCHANGED <<reqVars, pureVars>>

Next ==
    \E t \in Threads :
        \/ SearchPackagePaths(t)
        \/ CheckCache(t)
        \/ AcquireLock(t)
        \/ Recheck(t)
        \/ DownloadPackage(t)
        \/ HttpResponse(t)
        \/ CreateParent(t)
        \/ UnpackBegin(t)
        \/ UnpackEntry(t)

Spec == Init /\ [][Next]_vars

(***************************************************************************)
(* The same resolution, one engine thread per World, over every virtual    *)
(* path and every way the registry request can end                         *)
(***************************************************************************)
FetchThreads == {1, NThreads}

ResolveAnyPath(t) == \E p \in Pkgs, f \in Files : ResolvePath(t, p, f)

HttpResponseAny(t) == \E h \in AllHttpOutcomes : HttpEnds(t, h)

NextFetch ==
    \E t \in FetchThreads :
        \/ ResolveAnyPath(t)
        \/ CheckCache(t)
        \/ AcquireLock(t)
        \/ Recheck(t)
        \/ DownloadPackage(t)
        \/ HttpResponseAny(t)
        \/ CreateParent(t)
        \/ UnpackBegin(t)
        \/ UnpackEntry(t)

SpecFetch == Init /\ [][NextFetch]_vars


(***************************************************************************)
(* The resolution under fair scheduling: the threads of one World ask for  *)
(* files of one uncached package, so that they all meet at its lock        *)
(***************************************************************************)
\* a file of the package and a path that escapes its root
ContendedFiles == {"a", "up"}

ResolveContended(t) == \E f \in ContendedFiles : ResolvePath(t, "p1", f)

\* what a thread does once resolve_path was called
Proceed(t) ==
    \/ CheckCache(t)
    \/ Recheck(t)
    \/ DownloadPackage(t)
    \/ HttpResponse(t)
    \/ CreateParent(t)
    \/ UnpackBegin(t)
    \/ UnpackEntry(t)

NextFair ==
    \E t \in ThreadsOf(1) :
        \/ ResolveContended(t)
        \/ AcquireLock(t)
        \/ Proceed(t)

\* a running thread is scheduled, a request in flight ends, and a thread
\* gets a lock that stays free; the resolutions being finitely many, no
\* stronger fairness of the Mutex is needed
Fairness ==
    \A t \in ThreadsOf(1) : WF_vars(Proceed(t)) /\ WF_vars(AcquireLock(t))

SpecFair == Init /\ [][NextFair]_vars /\ Fairness
(***************************************************************************)
(* lib.rs: a compile request (compile_to_pdf_with_full_options)            *)
(***************************************************************************)
\* the calendar records of the host, as the maps they arrive as
DateTerm(pairs) == TMap(<< <<K_struct, TStr(N_Date)>> >> \o pairs)
DateFields(y, m, d) == << <<K_year, TInt(y)>>, <<K_month, TInt(m)>>, <<K_day, TInt(d)>> >>
TimeFields(h, mi, s) == << <<K_hour, TInt(h)>>, <<K_minute, TInt(mi)>>, <<K_second, TInt(s)>> >>

\* the inputs of the requests
Templates == { <<"H", "i">>, <<"#", "x", "\n">> }
Metadatas ==
    { <<>>,
      << <<M_title, <<"A">>>> >>,
      << <<M_title, <<"A", " ", "\"", "B", "\"">>>>, <<M_keywords, <<"k", ",", " ", "l">>>> >>,
      << <<M_date, <<"A", "u", "t", "o">>>> >>,
      << <<M_date, <<"2", "0", "2", "4">>>> >>,
      << <<<<"z", "z">>, <<"q">>>> >> }
VariableTerms ==
    { TInt(3),
      TList(<<>>),
      TMap(<<>>),
      TMap(<< <<<<"x">>, TInt(1)>> >>),
      TMap(<< <<<<"x">>, TInt(1)>>, <<<<"y">>, TStr(<<"s">>)>> >>),
      TMap(<< <<<<"y">>, TStr(<<"s">>)>>, <<<<"x">>, TInt(1)>> >>),
      TMap(<< <<<<"x">>, TInt(1)>>, <<<<"p">>, TOther("pid")>> >>),
      TMap(<< <<<<"d">>, DateTerm(DateFields(2024, 2, 29))>> >>),
      TMap(<< <<<<"d">>, DateTerm(<< <<K_year, TInt(2024)>>, <<K_day, TInt(1)>> >>)>> >>),
      TMap(<< <<<<"m">>, TMap(<< <<<<"2", "0", "2", "5", "-", "0", "1">>, TList(<<TBool(TRUE)>>)>> >>)>> >>) }

InitRequest ==
    /\ InitWorld /\ NoPure
    /\ rpc = "start"
    /\ template \in Templates
    /\ metadata \in Metadatas
    /\ variables \in VariableTerms
    /\ metadata_stmt = <<>>
    /\ var_dict = Ok(VDict(<<>>))
    /\ main_source = <<>>
    /\ world_built = FALSE
    /\ compiled = FALSE
    /\ response = Response(TRUE, <<>>)

\* "Generate metadata statement"
GenerateMetadata ==
    /\ rpc = "start"
    /\ metadata_stmt' = generate_document_metadata(metadata)
    /\ rpc' = "metadata"
    /\ UNCHANGED <<template, metadata, variables, var_dict, main_source,
                   world_built, compiled, response>>
    /\ UNCHANGED <<worldVars, pureVars>>

\* a handler that goes on with no variables when they fail to convert
ConvertVariablesStep_IgnoresError ==
    /\ rpc = "metadata"
    /\ var_dict' = IF terms_to_dict(variables).ok THEN terms_to_dict(variables)
                   ELSE Ok(VDict(<<>>))
    /\ rpc' = "variables"
    /\ UNCHANGED <<template, metadata, variables, metadata_stmt, main_source,
                   world_built, compiled, response>>
    /\ UNCHANGED <<worldVars, pureVars>>

\* convert::terms_to_dict(env, variables).map_err(..)?
ConvertVariablesStep ==
    /\ rpc = "metadata"
    /\ var_dict' = terms_to_dict(variables)
    /\ IF var_dict'.ok
       THEN /\ rpc' = "variables"
            /\ UNCHANGED response
       ELSE /\ rpc' = "failed"
            /\ response' = Response(FALSE,
                   <<"F", "a", "i", "l", "e", "d", " ", "t", "o", " ", "c", "o", "n", "v", "e", "r", "t", " ", "v", "a", "r", "i", "a", "b", "l", "e", "s", ":", " ">> \o Display(var_dict'))
    /\ UNCHANGED <<template, metadata, variables, metadata_stmt, main_source,
                   world_built, compiled>>
    /\ UNCHANGED <<worldVars, pureVars>>

\* the metadata is prepended to the source and the World is created; the
\* World fails to be created when the cache directory cannot be determined
CreateWorld ==
    /\ rpc = "variables"
    /\ \/ /\ main_source' = WorldSource(PrependMetadata(metadata_stmt, template), var_dict.val)
          /\ world_built' = TRUE
          /\ rpc' = "world"
          /\ UNCHANGED response
       \/ /\ rpc' = "failed"
          /\ response' = Response(FALSE,
                 <<"F", "a", "i", "l", "e", "d", " ", "t", "o", " ", "c", "r", "e", "a", "t", "e", " ", "w", "o", "r", "l", "d", ":", " ", "I", "O", " ", "e", "r", "r", "o", "r", ":", " ", "F", "a", "i", "l", "e", "d", " ", "t", "o", " ", "d", "e", "t", "e", "r", "m", "i", "n", "e", " ", "c", "a", "c", "h", "e", " ", "d", "i", "r", "e", "c", "t", "o", "r", "y">>)
          /\ UNCHANGED <<main_source, world_built>>
    /\ UNCHANGED <<template, metadata, variables, metadata_stmt, var_dict, compiled>>
    /\ UNCHANGED <<worldVars, pureVars>>

\* typst::compile(&world) is called
Compile ==
    /\ rpc = "world"
    /\ compiled' = TRUE
    /\ rpc' = "compiling"
    /\ UNCHANGED <<template, metadata, variables, metadata_stmt, var_dict,
                   main_source, world_built, response>>
    /\ UNCHANGED <<worldVars, pureVars>>

\* while it compiles, the engine asks the World for files of packages
EngineResolves ==
    /\ rpc = "compiling"
    /\ \/ SearchPackagePaths(1)
       \/ CheckCache(1)
       \/ AcquireLock(1)
       \/ Recheck(1)
       \/ DownloadPackage(1)
       \/ HttpResponse(1)
       \/ CreateParent(1)
       \/ UnpackBegin(1)
       \/ UnpackEntry(1)

\* the compilation ends and the document is rendered to PDF, or one of the
\* two fails
Finish ==
    /\ rpc = "compiling"
    /\ pc[1] \in {"idle", "done"}
    /\ \E outcome \in {"pdf", "compile", "render"} :
        IF outcome = "pdf"
        THEN rpc' = "done" /\ response' = Response(TRUE, <<>>)
        ELSE /\ rpc' = "failed"
             /\ response' = Response(FALSE,
                    IF outcome = "compile" THEN <<"C", "o", "m", "p", "i", "l", "a", "t", "i", "o", "n", " ", "f", "a", "i", "l", "e", "d", ":", " ">>
                    ELSE <<"P", "D", "F", " ", "g", "e", "n", "e", "r", "a", "t", "i", "o", "n", " ", "f", "a", "i", "l", "e", "d", ":", " ">>)
    /\ UNCHANGED <<template, metadata, variables, metadata_stmt, var_dict,
                   main_source, world_built, compiled>>
    /\ UNCHANGED <<worldVars, pureVars>>

NextRequest ==
    \/ GenerateMetadata
    \/ ConvertVariablesStep
    \/ CreateWorld
    \/ Compile
    \/ EngineResolves
    \/ Finish

SpecRequest == InitRequest /\ [][NextRequest]_vars

(***************************************************************************)
(* One application of term_to_value (convert.rs)                           *)
(***************************************************************************)
\* highest index of the array element that fails to convert
MaxIndex == 2

StampTerm(name, pairs) == TMap(<< <<K_struct, TStr(name)>> >> \o pairs)
\* the pairs without the entry of key
RemoveKey(pairs, key) == SelectSeq(pairs, LAMBDA kv : kv[1] # key)

\* field values inside and outside the calendar ranges, and beyond u8
YearValues == {2023, 2024}
MonthValues == {0, 1, 2, 12, 13, 257, 268}
DayValues == {0, 1, 29, 31, 32, 257}
HourValues == {0, 23, 24, 256}
MinuteValues == {0, 59, 60, 256}
SecondValues == {0, 59, 60, 315}
StampDates == {<<2024, 1, 1>>, <<2024, 13, 1>>, <<2024, 257, 1>>, <<2023, 2, 29>>, <<2024, 2, 29>>}

DateRecords ==
    {DateTerm(DateFields(y, m, d)) : y \in YearValues, m \in MonthValues, d \in DayValues}
StampRecords ==
    {StampTerm(name, DateFields(ymd[1], ymd[2], ymd[3]) \o TimeFields(h, mi, s)) :
        name \in {N_DateTime, N_NaiveDateTime}, ymd \in StampDates,
        h \in HourValues, mi \in MinuteValues, s \in SecondValues}

DateKeys == <<K_year, K_month, K_day>>
StampKeys == <<K_year, K_month, K_day, K_hour, K_minute, K_second>>
\* the fields a calendar record of the given struct name must have
RequiredKeys(name) == IF name = N_Date THEN DateKeys ELSE StampKeys
CalendarNames == {N_Date, N_DateTime, N_NaiveDateTime}
FullFields(name) ==
    IF name = N_Date THEN DateFields(2024, 2, 29)
    ELSE DateFields(2024, 2, 29) \o TimeFields(23, 59, 0)

\* calendar records that lack one required field, or two, or carry a
\* string where an integer is required
LackingRecords ==
    {StampTerm(name, RemoveKey(FullFields(name), RequiredKeys(name)[i])) :
        name \in CalendarNames, i \in 1..3}
    \cup {StampTerm(name, RemoveKey(FullFields(name), StampKeys[i])) :
        name \in {N_DateTime, N_NaiveDateTime}, i \in 4..6}
    \cup {StampTerm(name, RemoveKey(RemoveKey(FullFields(name), K_day), K_month)) :
        name \in CalendarNames}
    \cup {StampTerm(name, << <<K_year, TStr(<<"x">>)>> >> \o RemoveKey(FullFields(name), K_year)) :
        name \in CalendarNames}

\* convertible elements put before and after the failing one
Filler(j) == IF j % 2 = 0 THEN TInt(1) ELSE TStr(<<"x">>)
\* arrays whose element at index i (0-based) is rec
ArrayWith(rec, i, len) ==
    TList([j \in 1..len |-> IF j = i + 1 THEN rec ELSE Filler(j - 1)])
LackingArrays ==
    {ArrayWith(rec, i, len) :
        rec \in LackingRecords, i \in 0..MaxIndex, len \in 1..(MaxIndex + 2)}

OtherTerms ==
    { TBool(TRUE), TInt(-5), TFloat(3), TStr(<<"a", "\"", "b">>), TOther("atom"), TOther("pid"),
      TList(<<>>),
      TList(<<TInt(1), TList(<<TOther("tuple")>>)>>),
      TList(<<TInt(1), TStr(<<"x">>), TMap(<< <<K_year, TOther("pid")>> >>)>>),
      TMap(<< <<<<"k">>, TList(<<TInt(1), TOther("function")>>)>> >>),
      StampTerm(<<"E", "l", "i", "x", "i", "r", ".", "R", "a", "n", "g", "e">>, << <<<<"f", "i", "r", "s", "t">>, TInt(1)>>, <<<<"l", "a", "s", "t">>, TOther("reference")>> >>),
      StampTerm(<<"E", "l", "i", "x", "i", "r", ".", "R", "a", "n", "g", "e">>, << <<<<"f", "i", "r", "s", "t">>, TInt(1)>> >>),
      TMap(<< <<K_struct, TOther("atom")>>, <<K_year, TInt(1)>> >>) }

ConvTerms ==
    DateRecords \cup StampRecords \cup LackingRecords
    \cup {t \in LackingArrays : Len(t.val) > 0} \cup OtherTerms

InitConvert ==
    /\ InitWorld /\ NoRequest
    /\ phase = "in"
    /\ term \in ConvTerms
    /\ converted = Ok(VNone)
    /\ value = VNone
    /\ rendered = <<>>

\* term_to_value is applied to the term
Convert ==
    /\ phase = "in"
    /\ converted' = term_to_value(term)
    /\ phase' = "out"
    /\ UNCHANGED <<term, value, rendered>>
    /\ UNCHANGED <<worldVars, reqVars>>

\* the value that was converted is rendered to its literal
RenderConverted ==
    /\ phase = "out"
    /\ converted.ok
    /\ value' = converted.val
    /\ rendered' = value_to_typst_repr(converted.val)
    /\ phase' = "rendered"
    /\ UNCHANGED <<term, converted>>
    /\ UNCHANGED <<worldVars, reqVars>>

NextConvert == Convert \/ RenderConverted

SpecConvert == InitConvert /\ [][NextConvert]_vars

(***************************************************************************)
(* One application of value_to_typst_repr (world.rs)                       *)
(***************************************************************************)
\* nesting depth of the values rendered
MaxDepth == 2

KeyTexts == { <<"h">>, <<"2", "0", "2", "5", "-", "0", "1">>, <<"a", "\"", "b">>, <<"\\">>, <<"c", "\\", "\"">> }
Leaves == { VNone, VBool(TRUE), VInt(7), VStr(<<"s", "\"", "t">>), VStr(<<"u", "\\">>) }

RECURSIVE Nested(_)
\* values nested d deep, one element or entry per container
Nested(d) ==
    IF d = 0 THEN Leaves
    ELSE Leaves
         \cup {VArray(<<v>>) : v \in Nested(d - 1)}
         \cup {VDict(<< <<k, v>> >>) : k \in KeyTexts, v \in Nested(d - 1)}

\* containers of two, and the values of the remaining kinds
Wide ==
    {VDict(<< <<kk[1], v>>, <<kk[2], w>> >>) :
        kk \in {kk \in KeyTexts \X KeyTexts : kk[1] # kk[2]},
        v \in Nested(1), w \in Leaves}
    \cup {VArray(<<v, w>>) : v \in Nested(1), w \in Leaves}
    \cup { VArray(<<>>), VDict(<<>>), VAuto, VBool(FALSE), VInt(-12), VInt(0),
           VFloat(3), VFloat(-1), VFloat(4), VStr(<<>>),
           VDatetime(<<2024, 2, 29>>, <<>>), VDatetime(<<>>, <<23, 59, 0>>),
           VDatetime(<<2024, 2, 29>>, <<23, 59, 0>>) }

RenderValues == Nested(MaxDepth) \cup Wide

InitRender ==
    /\ InitWorld /\ NoRequest
    /\ phase = "in"
    /\ value \in RenderValues
    /\ rendered = <<>>
    /\ term = TInt(0)
    /\ converted = Ok(VNone)

\* value_to_typst_repr is applied to the value
Render ==
    /\ phase = "in"
    /\ rendered' = value_to_typst_repr(value)
    /\ phase' = "out"
    /\ UNCHANGED <<term, converted, value>>
    /\ UNCHANGED <<worldVars, reqVars>>

NextRender == Render

SpecRender == InitRender /\ [][NextRender]_vars

(***************************************************************************)
(* Properties of the resolution model                                      *)
(***************************************************************************)
\* the thread is between the start of the HTTP request and the end of the
\* extraction
InFlight(t) == pc[t] \in {"inflight", "mkdir", "unpack", "entries"}
\* the resolution went past package_paths
PastExtra(t) == ExtraHits(pkg[t], file[t]) = {}
\* every thread of World w has made one resolution, all of package p, none
\* found in package_paths, all have returned, and nothing else has run
AllResolved(w, p) ==
    /\ calls = Cardinality(ThreadsOf(w))
    /\ \A t \in ThreadsOf(w) : pc[t] = "done" /\ pkg[t] = p /\ PastExtra(t)
OneDownloadAllPaths(w, p) ==
    /\ fetchCount[w][p] = 1
    /\ extractCount[w][p] = 1
    /\ \A t \in ThreadsOf(w) : result[t] = OkPath(0)

C2_OneDownloadInFlight ==
    \A w \in Worlds : Cardinality({t \in ThreadsOf(w) : InFlight(t)}) <= 1

\* one thread of World 1 extracts while another, asking a different
\* package, waits for the download_lock
C2_Witness ==
    \E t, u \in ThreadsOf(1) :
        /\ pc[t] = "entries" /\ pc[u] = "lock" /\ pkg[t] # pkg[u]

OnlyFetcher(t) ==
    \A w \in Worlds :
        fetchCount[w][pkg[t]] = IF w = WorldOf(t) THEN nfetch[t] ELSE 0

Partial(p) == disk[p].dir /\ disk[p].files # ArchiveFiles(p)
\* the thread is inside the download critical section, extracting p
Extracting(t, p) == lock[WorldOf(t)] = t /\ pkg[t] = p /\ pc[t] = "entries"

\* C4: outside the download critical section the cache entry directory is
\* seen absent or fully populated: it is partially populated only while some
\* thread extracts it under the lock, and then no resolution is at its
\* pre-lock existence check of that package.
C4_NoPartialEntryObservable ==
    \A p \in Pkgs :
        Partial(p) =>
            /\ \E t \in Threads : Extracting(t, p)
            /\ \A u \in Threads : ~(pc[u] = "cache" /\ pkg[u] = p)


(***************************************************************************)
(* Properties of the source assembly and of the request handler            *)
(***************************************************************************)
\* the variable declaration lines of the request's converted variables
Declarations == VarDeclarations(var_dict.val.val, 1)
\* a World was built from a non-empty metadata statement and non-empty
\* variable declarations
BothPreambles == world_built /\ metadata_stmt # <<>> /\ Declarations # <<>>

\* C5 as stated: the main source is the metadata statement line, then the
\* variable declaration lines, then one blank line, then the template.
C5_Original ==
    BothPreambles =>
        main_source = metadata_stmt \o Declarations \o <<"\n">> \o template

\* C5 (amended): the main source is the variable declaration lines, then one
\* blank line, then the metadata statement line, then the unmodified
\* template.
C5_DeclarationsThenMetadata ==
    BothPreambles =>
        main_source = Declarations \o <<"\n">> \o metadata_stmt \o template

\* two variables and a title: the World's source starts with the two #let
\* lines and the statement follows the blank line
C5_Witness ==
    /\ BothPreambles
    /\ Len(var_dict.val.val) = 2
    /\ main_source = <<"#", "l", "e", "t", " ", "x", " ", "=", " ", "1", "\n", "#", "l", "e", "t", " ", "y", " ", "=", " ", "\"", "s", "\"", "\n", "\n", "#", "s", "e", "t", " ", "d", "o", "c", "u", "m", "e", "n", "t", "(", "t", "i", "t", "l", "e", ":", " ", "\"", "A", "\"", ")", "\n", "H", "i">>

\* no resolution has started and nothing was fetched
NothingResolved ==
    /\ calls = 0
    /\ \A t \in Threads : pc[t] = "idle"
    /\ \A w \in Worlds, p \in Pkgs : fetchCount[w][p] = 0 /\ extractCount[w][p] = 0

NotAMapMessage ==
    <<"F", "a", "i", "l", "e", "d", " ", "t", "o", " ", "c", "o", "n", "v", "e", "r", "t", " ", "v", "a", "r", "i", "a", "b", "l", "e", "s", ":", " ", "I", "n", "v", "a", "l", "i", "d", " ", "i", "n", "p", "u", "t", ":", " ", "E", "x", "p", "e", "c", "t", "e", "d", " ", "a", " ", "m", "a", "p", " ", "f", "o", "r", " ", "v", "a", "r", "i", "a", "b", "l", "e", "s">>
\* the message names a variable of the request whose term does not convert
NamesFailingVariable(msg) ==
    \E i \in 1..Len(variables.val) :
        /\ ~term_to_value(variables.val[i][2]).ok
        /\ Contains(msg, <<"E", "r", "r", "o", "r", " ", "c", "o", "n", "v", "e", "r", "t", "i", "n", "g", " ", "v", "a", "r", "i", "a", "b", "l", "e", " ", "'">> \o variables.val[i][1] \o <<"'", ":", " ">>)

\* C9: a request whose variables are not a mapping, or fail to convert, fails
\* before a World is constructed, before compilation and before any fetch;
\* the non-mapping error differs from the per-variable errors, which name
\* the offending variable.
C9_FailsBeforeWorld ==
    /\ (rpc \notin {"start", "metadata"} /\ (variables.tag # "map" \/ ~var_dict.ok)) =>
            /\ rpc = "failed" /\ ~response.ok
            /\ ~world_built /\ ~compiled /\ NothingResolved
            /\ IF variables.tag # "map"
               THEN response.msg = NotAMapMessage
               ELSE response.msg # NotAMapMessage /\ NamesFailingVariable(response.msg)
    /\ (world_built \/ compiled \/ ~NothingResolved) => (variables.tag = "map" /\ var_dict.ok)

\* the request with a pid among its variables has failed
C9_Witness ==
    /\ rpc = "failed" /\ ~var_dict.ok /\ variables.tag = "map"
    /\ Contains(response.msg, <<"E", "r", "r", "o", "r", " ", "c", "o", "n", "v", "e", "r", "t", "i", "n", "g", " ", "v", "a", "r", "i", "a", "b", "l", "e", " ", "'", "p", "'", ":", " ">>)
    /\ ~world_built /\ ~compiled

(***************************************************************************)
(* Properties of the conversion of host terms                              *)
(***************************************************************************)
\* the term is a calendar record: its struct name
IsCalendar(t) ==
    t.tag = "map" /\ StructName(t.val) # <<>> /\ StructName(t.val)[1] \in CalendarNames
NameOf(t) == StructName(t.val)[1]
\* the integer the record carries under key
Field(t, key) == GetI64(t.val, key)[1]
HasAllFields(t) == FirstMissing(t.val, RequiredKeys(NameOf(t))) = <<>>
\* every field of the record lies in its calendar range
InCalendarRange(t) ==
    /\ ValidDate(Field(t, K_year), Field(t, K_month), Field(t, K_day))
    /\ NameOf(t) # N_Date =>
           ValidTime(Field(t, K_hour), Field(t, K_minute), Field(t, K_second))

\* C6: a calendar record with all its required fields present as integers
\* and some field outside its calendar range fails to convert with
\* InvalidInput; no out-of-range value is accepted as another value.
C6_OutOfRangeRejected ==
    (phase # "in" /\ IsCalendar(term) /\ HasAllFields(term) /\ ~InCalendarRange(term)) =>
        (~converted.ok /\ converted.kind = "InvalidInput")

\* the required fields the record lacks as integers
Lacking(t) ==
    {i \in 1..Len(RequiredKeys(NameOf(t))) : GetI64(t.val, RequiredKeys(NameOf(t))[i]) = <<>>}
\* the record lacks exactly the field f
LacksExactly(t, f) ==
    /\ IsCalendar(t)
    /\ MapGet(t.val, f) = <<>>
    /\ \A i \in Lacking(t) : RequiredKeys(NameOf(t))[i] = f
    /\ Lacking(t) # {}
\* the kind of record a struct name stands for
KindLabel(name) ==
    IF name = N_Date THEN <<"D", "a", "t", "e">>
    ELSE IF name = N_DateTime THEN <<"D", "a", "t", "e", "T", "i", "m", "e">>
    ELSE <<"N", "a", "i", "v", "e", "D", "a", "t", "e", "T", "i", "m", "e">>
AllKeys == {StampKeys[i] : i \in 1..Len(StampKeys)}

\* C8: a calendar record that lacks exactly one required field fails with
\* InvalidInput whose message names that field and the kind of the record
\* that was supplied.
C8_NamesFieldAndKind ==
    \A f \in AllKeys :
        (phase # "in" /\ LacksExactly(term, f)) =>
            converted = InvalidInput(KindLabel(NameOf(term)) \o <<" ", "m", "i", "s", "s", "i", "n", "g", " ">> \o f \o <<" ", "f", "i", "e", "l", "d">>)

\* the array's element at index i (0-based) is a calendar record whose first
\* lacking field is f, and the elements before it convert
FailsAt(t, i, f) ==
    /\ t.tag = "list" /\ i < Len(t.val)
    /\ \A j \in 1..i : term_to_value(t.val[j]).ok
    /\ IsCalendar(t.val[i + 1])
    /\ FirstMissing(t.val[i + 1].val, RequiredKeys(NameOf(t.val[i + 1]))) = <<f>>
BracketPath(i, f) == <<"[">> \o IntToText(i) \o <<"]", ".">> \o f

RECURSIVE DecodeBody(_)
\* the text a literal's body stands for: a backslash takes the character
\* after it; ok is FALSE when the body holds an unescaped double quote or
\* ends inside an escape
DecodeBody(s) ==
    IF s = <<>> THEN [ok |-> TRUE, text |-> <<>>]
    ELSE IF Head(s) = "\""
    THEN [ok |-> FALSE, text |-> <<>>]
    ELSE IF Head(s) = "\\"
    THEN IF Len(s) < 2 THEN [ok |-> FALSE, text |-> <<>>]
         ELSE LET rest == DecodeBody(SubSeq(s, 3, Len(s)))
              IN [ok |-> rest.ok, text |-> <<s[2]>> \o rest.text]
    ELSE LET rest == DecodeBody(Tail(s))
         IN [ok |-> rest.ok, text |-> <<Head(s)>> \o rest.text]

\* q is one double-quoted literal that stands for the text k
IsLiteralOf(q, k) ==
    /\ Len(q) >= 2 /\ q[1] = "\"" /\ q[Len(q)] = "\""
    /\ DecodeBody(SubSeq(q, 2, Len(q) - 1)) = [ok |-> TRUE, text |-> k]

RECURSIVE Entries(_)
\* the <<key, value>> entries of the dictionaries inside v, at any depth
Entries(v) ==
    IF v.tag = "dict"
    THEN UNION {{<<v.val[i][1], v.val[i][2]>>} \cup Entries(v.val[i][2]) : i \in 1..Len(v.val)}
    ELSE IF v.tag = "array"
    THEN UNION {Entries(v.val[i]) : i \in 1..Len(v.val)}
    ELSE {}

\* text holds s from position i on
HoldsAt(text, i, s) == i >= 1 /\ i + Len(s) - 1 <= Len(text) /\ SubSeq(text, i, i + Len(s) - 1) = s
\* position i of text is where an entry of a dictionary starts
EntryStart(text, i) == HoldsAt(text, i - 1, <<"(">>) \/ HoldsAt(text, i - 2, <<",", " ">>)
\* the entry k: v is emitted with a quoted key
EmittedQuoted(text, k, v) ==
    \E i \in 1..Len(text), j \in 1..Len(text) :
        /\ i < j
        /\ EntryStart(text, i)
        /\ IsLiteralOf(SubSeq(text, i, j), k)
        /\ HoldsAt(text, j + 1, <<":", " ">> \o value_to_typst_repr(v))
\* the entry k: v is emitted with its key as a bare token
EmittedBare(text, k, v) ==
    \E i \in 1..Len(text) :
        /\ EntryStart(text, i)
        /\ HoldsAt(text, i, k \o <<":", " ">> \o value_to_typst_repr(v))

\* C10: every key of every dictionary inside a rendered value, at any depth,
\* is emitted as one double-quoted literal standing for the key (backslash
\* and double quote escaped), followed by ": " and the rendered value, and
\* never as a bare token.
C10_KeysAlwaysQuoted ==
    phase = "out" =>
        \A e \in Entries(value) :
            EmittedQuoted(rendered, e[1], e[2]) /\ ~EmittedBare(rendered, e[1], e[2])

\* a dictionary with the key 2025-01 nested in another dictionary
C10_Witness ==
    /\ phase = "out"
    /\ value = VDict(<< <<<<"h">>, VDict(<< <<<<"2", "0", "2", "5", "-", "0", "1">>, VInt(7)>> >>)>> >>)
    /\ rendered = <<"(", "\"", "h", "\"", ":", " ", "(", "\"", "2", "0", "2", "5", "-", "0", "1", "\"", ":", " ", "7", ")", ")">>

(***************************************************************************)
(* Properties of a resolution that reaches the registry                    *)
(***************************************************************************)
\* the request of the thread's current resolution ended in a transport
\* failure or in a non-success status
FetchRefused(t) == http[t].outcome \in {"transport", "status"}
\* the text of the PackageError the claim describes for that ending
RefusalText(t) ==
    IF http[t].outcome = "status"
    THEN <<"F", "a", "i", "l", "e", "d", " ", "t", "o", " ", "d", "o", "w", "n", "l", "o", "a", "d", " ", "p", "a", "c", "k", "a", "g", "e", " ">> \o PackageName(pkg[t]) \o <<":", " ", "H", "T", "T", "P", " ">>
             \o StatusText(http[t].detail)
    ELSE <<"F", "a", "i", "l", "e", "d", " ", "t", "o", " ", "d", "o", "w", "n", "l", "o", "a", "d", " ", "p", "a", "c", "k", "a", "g", "e", ":", " ">> \o Causes[http[t].detail]

\* C11: a resolution whose registry request ends in a transport failure or a
\* non-success status has returned, after exactly one request, the error
\* whose text is the Display of a PackageError that names the package and
\* the status, or the transport cause; it holds no path.
C11_OneAttemptThenPackageError ==
    \A t \in Threads :
        FetchRefused(t) =>
            /\ pc[t] = "done"
            /\ nfetch[t] = 1
            /\ result[t].kind = "err" /\ result[t].dir = -1
            /\ result[t].variant = "Other"
            /\ result[t].msg = <<"P", "a", "c", "k", "a", "g", "e", " ", "e", "r", "r", "o", "r", ":", " ">> \o RefusalText(t)

\* one World was answered 503 for p2, the other could not reach the registry
\* for p1
C11_Witness ==
    /\ FetchRefused(1) /\ pkg[1] = "p2" /\ pc[1] = "done"
    /\ result[1].msg = <<"P", "a", "c", "k", "a", "g", "e", " ", "e", "r", "r", "o", "r", ":", " ", "F", "a", "i", "l", "e", "d", " ", "t", "o", " ", "d", "o", "w", "n", "l", "o", "a", "d", " ", "p", "a", "c", "k", "a", "g", "e", " ", "p", "2", "-", "0", ".", "2", ".", "0", ":", " ", "H", "T", "T", "P", " ", "5", "0", "3", " ", "S", "e", "r", "v", "i", "c", "e", " ", "U", "n", "a", "v", "a", "i", "l", "a", "b", "l", "e">>
    /\ FetchRefused(NThreads) /\ pkg[NThreads] = "p1" /\ pc[NThreads] = "done"
    /\ result[NThreads].msg = <<"P", "a", "c", "k", "a", "g", "e", " ", "e", "r", "r", "o", "r", ":", " ", "F", "a", "i", "l", "e", "d", " ", "t", "o", " ", "d", "o", "w", "n", "l", "o", "a", "d", " ", "p", "a", "c", "k", "a", "g", "e", ":", " ", "o", "p", "e", "r", "a", "t", "i", "o", "n", " ", "t", "i", "m", "e", "d", " ", "o", "u", "t">>

\* the metadata map holds no field the statement would carry: every key is
\* unrecognized, or is a date that is neither "auto" nor "none"
NoEmittedField(md) ==
    \A i \in 1..Len(md) :
        \/ md[i][1] \notin {M_title, M_author, M_description, M_keywords, M_date}
        \/ /\ md[i][1] = M_date
           /\ ToLowercase(md[i][2]) \notin {<<"a", "u", "t", "o">>, <<"n", "o", "n", "e">>}
NoVariables == variables = TMap(<<>>)
\* the text has two line ends in a row
HasBlankLine(s) == \E i \in 1..(Len(s) - 1) : s[i] = "\n" /\ s[i + 1] = "\n"

\* C12: with no emitted metadata field and no variables the World's main
\* source is the template itself; with only the metadata empty it is the
\* declarations, their blank line and the template; with only the variables
\* empty it is the non-empty metadata statement and the template, without a
\* blank line between them.
C12_EmptyPreambleAddsNothing ==
    world_built =>
        /\ (NoEmittedField(metadata) /\ NoVariables) => main_source = template
        /\ (NoEmittedField(metadata) /\ ~NoVariables) =>
               main_source = Declarations \o <<"\n">> \o template
        /\ (~NoEmittedField(metadata) /\ NoVariables) =>
               /\ main_source = metadata_stmt \o template
               /\ Len(metadata_stmt) > Len(<<"#", "s", "e", "t", " ", "d", "o", "c", "u", "m", "e", "n", "t", "(", ")", "\n">>)
               /\ ~HasBlankLine(main_source)

\* a date that is not a keyword and an empty variables map leave the
\* template untouched
C12_Witness ==
    /\ world_built /\ NoVariables
    /\ metadata = << <<M_date, <<"2", "0", "2", "4">>>> >>
    /\ main_source = <<"H", "i">>

(***************************************************************************)
(* Properties of the search order                                          *)
(***************************************************************************)
\* the file exists below some extra package directory
InSomeExtra(p, f) == \E d \in 1..Len(PackagePaths) : <<p, f>> \in PackagePaths[d]
\* d is the first extra package directory, in configured order, with the file
EarliestExtra(p, f, d) ==
    /\ d \in 1..Len(PackagePaths)
    /\ <<p, f>> \in PackagePaths[d]
    /\ \A j \in 1..(d - 1) : <<p, f>> \notin PackagePaths[j]

\* a resolution of a file that an extra package directory holds has returned
\* the path below the earliest such directory, without the lock and without
\* a fetch; any other path returned lies below the cache directory
ExtrasFirst ==
    \A t \in Threads :
        pc[t] # "idle" =>
            IF InSomeExtra(pkg[t], file[t])
            THEN /\ pc[t] = "done" /\ result[t].kind = "ok"
                 /\ EarliestExtra(pkg[t], file[t], result[t].dir)
                 /\ nfetch[t] = 0
                 /\ lock[WorldOf(t)] # t
            ELSE result[t].kind = "ok" => result[t].dir = 0

\* a resolution at its check of the cache directory returns the cached path
\* when the file exists there, leaving the lock and the fetch counts alone,
\* and goes for the lock otherwise; a request is issued only when the file
\* exists neither below an extra directory nor in the cache
CacheThenFetch ==
    \A t \in Threads :
        /\ (pc[t] = "cache" /\ pc'[t] # "cache") =>
               IF CacheFileExists(pkg[t], file[t])
               THEN /\ pc'[t] = "done" /\ result'[t] = OkPath(0)
                    /\ lock' = lock /\ nfetch'[t] = 0 /\ fetchCount' = fetchCount
               ELSE pc'[t] = "lock" /\ lock' = lock
        /\ nfetch'[t] > nfetch[t] =>
               /\ ~InSomeExtra(pkg[t], file[t])
               /\ ~CacheFileExists(pkg[t], file[t])

\* C13: the extra package directories are searched in configured order, then
\* the cache directory; the first location where the file exists gives the
\* returned path, then without the download lock and without a fetch; a
\* fetch is attempted only when the file exists in none of them.
C13_FirstExistingLocation == []ExtrasFirst /\ [][CacheThenFetch]_vars

\* p2 was fetched for its missing file "b" and is in the cache with its file
\* "a", which the second and the third extra directory hold as well: the
\* resolution of "a" returned the path below the second one
C13_Witness ==
    \E t, u \in Threads :
        /\ pc[t] = "done" /\ pkg[t] = "p2" /\ file[t] = "a"
        /\ CacheFileExists("p2", "a")
        /\ result[t] = OkPath(2) /\ nfetch[t] = 0
        /\ pc[u] = "done" /\ pkg[u] = "p2" /\ file[u] = "b" /\ nfetch[u] = 1

\* the resolution went through download_package, which returned a directory:
\* it returned, not from an extra directory and not with the error of a
\* failed download
FetcherSucceeded(t) ==
    /\ pc[t] = "done" /\ ~InSomeExtra(pkg[t], file[t])
    /\ result[t].variant # "Other"

\* C14: a resolution for which the Fetcher succeeded while the file is not in
\* the cache directory fails with NotFound; it returns no path.
C14_NotFoundWhenFileMissing ==
    \A t \in Threads :
        (FetcherSucceeded(t) /\ ~CacheFileExists(pkg[t], file[t])) =>
            result[t].kind = "err" /\ result[t].variant = "NotFound"

(***************************************************************************)
(* Properties of the download lock                                         *)
(***************************************************************************)
\* the thread is between lock() and the return of resolve_path
InCriticalSection(t) ==
    pc[t] \in {"recheck", "download", "inflight", "mkdir", "unpack", "entries"}

\* C15: resolutions are serialized only within one World: a thread inside
\* the download critical section holds the lock of its own World, and two
\* threads inside it at the same time belong to different Worlds (which the
\* witness shows to happen, both extracting the same package).
C15_SerializedPerWorldOnly ==
    \A t, u \in Threads :
        InCriticalSection(t) =>
            /\ lock[WorldOf(t)] = t
            /\ (u # t /\ InCriticalSection(u)) => WorldOf(u) # WorldOf(t)

\* a thread of each World has fetched p1 and is unpacking it into the one
\* cache directory, each holding the lock of its World
C15_Witness ==
    \E t \in ThreadsOf(1), u \in ThreadsOf(2) :
        /\ pc[t] = "entries" /\ pc[u] = "entries"
        /\ pkg[t] = "p1" /\ pkg[u] = "p1"
        /\ lock[1] = t /\ lock[2] = u
        /\ nfetch[t] = 1 /\ nfetch[u] = 1
        /\ fetchCount[1]["p1"] = 1 /\ fetchCount[2]["p1"] = 1
        /\ extractCount[1]["p1"] = 1 /\ extractCount[2]["p1"] = 1

\* a thread outside the critical section does not hold the lock of its World
LockReleasedOnExit ==
    \A t \in Threads : ~InCriticalSection(t) => lock[WorldOf(t)] # t

\* C16: a resolution that has returned, on whichever path, holds no lock;
\* and under fair scheduling with requests that end, every resolution that
\* waits for the lock returns.
C16_LockReleasedAndWaitersReturn ==
    /\ []LockReleasedOnExit
    /\ \A t \in Threads : (pc[t] = "lock") ~> (pc[t] = "done")

\* the fetch of one thread failed and it returned the error; another thread
\* of the same World now holds the lock and has its own request in flight
C16_Witness ==
    \E t, u \in ThreadsOf(1) :
        /\ pc[t] = "done" /\ result[t].kind = "err" /\ nfetch[t] = 1
        /\ pc[u] = "inflight" /\ lock[1] = u
        /\ pkg[t] = pkg[u]

(***************************************************************************)
(* Properties of a failed fetch                                            *)
(***************************************************************************)
\* the request of the thread's current resolution failed before any byte of
\* the archive was unpacked
RequestFailed(t) == http[t].outcome \in {"transport", "status", "body"}
\* nothing of the package is on disk: neither its parent directories nor its
\* entry directory
Uncached(p) == disk[p] = [parent |-> FALSE, dir |-> FALSE, files |-> {}]
\* nobody has got as far as creating a directory for the package
NobodyUnpacked(p) ==
    /\ \A w \in Worlds : extractCount[w][p] = 0
    /\ \A t \in Threads : ~(pkg[t] = p /\ pc[t] = "unpack")

\* a thread whose request failed has returned; a package for which no
\* download got past its request is not on disk
FailedRequestReturns ==
    /\ \A t \in Threads : RequestFailed(t) => pc[t] = "done" /\ result[t].kind = "err"
    /\ \A p \in Pkgs : NobodyUnpacked(p) => Uncached(p)

\* the step in which a request fails leaves the disk as it is, and a
\* resolution that comes to download_package while the entry directory is
\* absent issues a request
FailureKeepsDiskAndRefetch ==
    \A t \in Threads :
        /\ (pc[t] = "inflight" /\ pc'[t] = "done") =>
               RequestFailed(t)' /\ disk' = disk
        /\ (pc[t] = "download" /\ pc'[t] # "download") =>
               IF disk[pkg[t]].dir
               THEN nfetch'[t] = nfetch[t] /\ pc'[t] = "done"
               ELSE nfetch'[t] = nfetch[t] + 1 /\ pc'[t] = "inflight"

\* C17: a fetch that fails in its request (transport, status, body) creates
\* no directory for the package or its parents, and a later resolution of
\* the package, finding it uncached, issues a request again.
C17_FailedFetchLeavesCacheUntouched ==
    []FailedRequestReturns /\ [][FailureKeepsDiskAndRefetch]_vars

\* the request of one thread failed; a resolution of the same package that
\* started after it had returned has its own request in flight, the package
\* still being absent from the disk
C17_Witness ==
    \E t, u \in Threads :
        /\ pc[t] = "done" /\ RequestFailed(t) /\ nfetch[t] = 1
        /\ pkg[u] = pkg[t] /\ afterFirst[u] /\ ~dirAtStart[u]
        /\ pc[u] = "inflight" /\ nfetch[u] = 1
        /\ Uncached(pkg[t])

(***************************************************************************)
(* Properties of the literal rendering as a function                       *)
(***************************************************************************)
\* the variants the claim speaks of
ApartVariants == {"none", "auto", "bool", "int", "str", "array", "dict"}
\* the values every rendered value is compared with
ComparedValues ==
    Nested(1) \cup {VArray(<<>>), VDict(<<>>), VAuto, VBool(FALSE), VInt(0), VInt(-12),
                    VStr(<<>>), VStr(<<"n", "o", "n", "e">>), VStr(<<"7">>), VStr(<<"(", ")">>)}

\* C18: the text rendered for a value of one of the variants none, auto,
\* boolean, integer, string, array, dictionary is never the text rendered for
\* a value of another of these variants; the empty dictionary and the empty
\* array render differently.
C18_VariantsRenderApart ==
    (phase = "out" /\ value.tag \in ApartVariants) =>
        \A w \in ComparedValues :
            (w.tag \in ApartVariants /\ w.tag # value.tag) =>
                value_to_typst_repr(w) # rendered

\* C19: the text rendered for a string value is one double-quoted literal
\* whose only unescaped double quotes are its first and its last character,
\* and which un-escapes (\\ to backslash, \" to double quote) to the string.
C19_StringLiteralRoundTrips ==
    (phase = "out" /\ value.tag = "str") => IsLiteralOf(rendered, value.val)
====
